---- MODULE Spec2Model ----
(***************************************************************************)
(* Scheduled dispatch engine of the tennis booking bot.                    *)
(*                                                                         *)
(* BookingScheduler (src/src/scheduler.py) keeps one one-shot APScheduler  *)
(* DateTrigger job per pending row of the scheduled_bookings table and     *)
(* runs _execute for every job that fires.  The asyncio event loop runs    *)
(* one coroutine at a time, so the code between two awaits is one atomic   *)
(* step; every await is a point where other coroutines, bot handlers,      *)
(* the clock and a crash interleave.                                       *)
(*                                                                         *)
(* Time is counted in minutes since 00:00 of day 0 (Dubai time); only the  *)
(* instants at which something can become due are visited.                 *)
(***************************************************************************)
EXTENDS Naturals, Integers, FiniteSets, Sequences, TLC

\* ---------------------------------------------------------------- bounds

\* Number of rows the scheduled_bookings table may receive.
NJobs == 2

\* Number of times the process may be brought up again (after a crash or a stop).
MaxRestarts == 1

\* Number of calendar years, from 2023 on, whose dates compute_fire_at is tried on.
NYears == 2

\* ------------------------------------------------------ program constants

MAX_RETRIES_PER_JOB == 3

\* timedelta(days=7): the lead window of compute_fire_at.
LEAD_DAYS == 7

\* replace(hour=0, minute=1): the minute of the day at which a job fires.
TRIGGER_MINUTE == 1

\* AsyncIOScheduler(timezone=DUBAI_TZ) is built with APScheduler's job
\* defaults: a run whose time was missed by more than this many seconds is
\* dropped as a misfire.
misfire_grace_time == 1

JobIds == 1 .. NJobs

\* Telegram user ids.
Users == {1, 2}

\* Users the bot cannot write to (they blocked the bot, or Telegram is out of
\* reach for their chat): send_message raises for them.
Unreachable == {2}

\* Booking dates.  A date string "YYYY-MM-DD" is modelled by the three
\* numbers it spells; the numbers need not form a date of the calendar.
Dates == { [ year |-> 2024, month |-> 3, day |-> 10 ] }

\* The day the clock starts in: now = 0 is 00:00 of this day, Dubai time.
ClockStart == [ year |-> 2024, month |-> 3, day |-> 3 ]

BookingTimes == {"18:00"}

Courts == {"Amaranta B"}

\* ------------------------------------------------------------ fire time

MinutesPerDay == 24 * 60

\* The proleptic Gregorian calendar of Python's datetime module, on which
\* strptime, timedelta arithmetic and date() work.
is_leap(year) == year % 4 = 0 /\ (year % 100 # 0 \/ year % 400 = 0)

days_in_month(year, month) ==
    IF month = 2 THEN (IF is_leap(year) THEN 29 ELSE 28)
    ELSE IF month \in {4, 6, 9, 11} THEN 30 ELSE 31

days_before_year(year) ==
    LET y == year - 1
    IN  y * 365 + (y \div 4) - (y \div 100) + (y \div 400)

RECURSIVE days_before_month(_, _)
days_before_month(year, month) ==
    IF month = 1 THEN 0
    ELSE days_before_month(year, month - 1) + days_in_month(year, month - 1)

\* date -> ordinal, 0001-01-01 being day 1
ymd2ord(d) == days_before_year(d.year) + days_before_month(d.year, d.month) + d.day

\* ordinal -> date, by the 400-, 100-, 4- and 1-year cycles
ord2ymd(ordinal) ==
    LET n0   == ordinal - 1
        n400 == n0 \div 146097
        r400 == n0 % 146097
        n100 == r400 \div 36524
        r100 == r400 % 36524
        n4   == r100 \div 1461
        r4   == r100 % 1461
        n1   == r4 \div 365
        n    == r4 % 365
        year == n400 * 400 + n100 * 100 + n4 * 4 + n1 + 1
        month == CHOOSE m \in 1 .. 12 :
                     /\ days_before_month(year, m) <= n
                     /\ n < days_before_month(year, m) + days_in_month(year, m)
    IN  IF n1 = 4 \/ n100 = 4
        THEN [ year |-> year - 1, month |-> 12, day |-> 31 ]
        ELSE [ year |-> year, month |-> month,
               day |-> n - days_before_month(year, month) + 1 ]

\* Mutant of strptime_raises: any three numbers are taken for a date.
strptime_never_raises(booking_date) == FALSE

\* datetime.strptime(booking_date, "%Y-%m-%d") raises ValueError unless the
\* string spells a date of the calendar.
strptime_raises(booking_date) ==
    ~ /\ booking_date.year \in 1 .. 9999
      /\ booking_date.month \in 1 .. 12
      /\ booking_date.day \in 1 .. days_in_month(booking_date.year, booking_date.month)

\* Mutant of subtract_lead: the lead window is one day short.
lead_one_short(ordinal) == ordinal - (LEAD_DAYS - 1)

\* target - timedelta(days=7), on the midnight datetime strptime returned
subtract_lead(ordinal) == ordinal - LEAD_DAYS

\* An ISO datetime string, by its fields; tzinfo "" is a naive datetime.
\* `raised` is the exception the call ended with ("" when it returned).
IsoDateTime(raised, d, hour, minute, second, tzinfo) ==
    [ raised |-> raised, year |-> d.year, month |-> d.month, day |-> d.day,
      hour |-> hour, minute |-> minute, second |-> second, tzinfo |-> tzinfo ]

NoDate == [ year |-> 0, month |-> 0, day |-> 0 ]

NoDateTime == IsoDateTime("", NoDate, 0, 0, 0, "")

\* pytz's Asia/Dubai: +04:00 all year, every year since 1920.
DUBAI_TZ == "+04:00"

\* compute_fire_at: booking_date - 7 days, localized at 00:01:00 Dubai time.
compute_fire_at(booking_date) ==
    IF strptime_raises(booking_date)
    THEN IsoDateTime("ValueError", NoDate, 0, 0, 0, "")
    ELSE LET fire == subtract_lead(ymd2ord(booking_date))
         IN  IF fire < 1
             THEN IsoDateTime("OverflowError", NoDate, 0, 0, 0, "")
             ELSE IsoDateTime("", ord2ymd(fire), 0, TRIGGER_MINUTE, 0, DUBAI_TZ)

\* datetime.fromisoformat(fire_at_str), localized to Dubai when naive; as an
\* instant of the clock, in minutes since 00:00 of ClockStart (Dubai time).
fromisoformat(fire_at) ==
    (ymd2ord(fire_at) - ymd2ord(ClockStart)) * MinutesPerDay
        + fire_at.hour * 60 + fire_at.minute

\* datetime.fromisoformat raises ValueError unless the string spells a date
\* of the calendar and a time of the day.
fromisoformat_raises(fire_at) ==
    ~ /\ fire_at.year \in 1 .. 9999
      /\ fire_at.month \in 1 .. 12
      /\ fire_at.day \in 1 .. days_in_month(fire_at.year, fire_at.month)
      /\ fire_at.hour \in 0 .. 23
      /\ fire_at.minute \in 0 .. 59
      /\ fire_at.second \in 0 .. 59

\* datetime.isoformat() puts a "T" between the date and the time.
isoformat_sep == "T"

\* datetime.strptime(fire_at, "%Y-%m-%d %H:%M:%S"), as the bot calls it on the
\* string compute_fire_at returned: the format wants a space between date and
\* time and has no directive for a UTC offset, and strptime raises ValueError
\* when the string does not match or when text is left over.
strptime_fire_at_raises(fire_at) ==
    \/ fromisoformat_raises(fire_at)
    \/ isoformat_sep # " "
    \/ fire_at.tzinfo # ""

\* The instants the clock visits: the start, every fire time, and the minute after.
Instants ==
    {0} \cup { fromisoformat(compute_fire_at(d)) : d \in Dates }
        \cup { fromisoformat(compute_fire_at(d)) + 1 : d \in Dates }

\* ---------------------------------------------------------------- state

VARIABLES
    now,          \* current instant
    phase,        \* "init" (constructed, start() not yet run) | "running" | "stopped"
    restarts,     \* how many times the process was brought up again
    db,           \* scheduled_bookings: job id -> row (NoRow when not inserted)
    timers,       \* APScheduler job store: ids sched_<id> with an armed DateTrigger
    active,       \* BookingScheduler._active: collision keys of running _execute calls
    run,          \* per job: the frame of its _execute coroutine in this process
    loopEntries,  \* per job: runs that entered the retry loop, over all processes
    invoked,      \* jobs for which book_court was ever invoked, over all processes
    missed,       \* jobs whose run APScheduler dropped as a misfire in this process
    lateAtStart,  \* jobs start() loaded with fire_at already in the past
    cancelledEarly, \* jobs cancelled while pending with fire_at still in the future
    computed      \* the last call of compute_fire_at: its argument and its outcome

vars ==
    << now, phase, restarts, db, timers, active, run, loopEntries, invoked,
       missed, lateAtStart, cancelledEarly, computed >>

\* The frame of one _execute call:
\*   pc            where the coroutine stands
\*   attempt       the loop variable
\*   result        the local `result` ("none" or one of Results)
\*   returned      book_court calls of this run that have returned or raised
\*   firstSuccess  the attempt whose call first succeeded (0: none so far)
\*   waits         asyncio.sleep(5) calls of this run
\* A frame exists from the moment the task is created to the moment the
\* coroutine returns; before and after, only pc says what became of the run.
Frame(p) ==
    [ pc |-> p, attempt |-> 0, result |-> "none", returned |-> 0,
      firstSuccess |-> 0, waits |-> 0 ]

Statuses == {"pending", "executing", "success", "failed", "cancelled"}

Terminal == {"success", "failed", "cancelled"}

MsgCollision == "Collision: Another identical booking was already in progress."

MsgNoCredentials == "No credentials found. Use /login to add them."

MsgConfirmed == "Scheduled booking confirmed!"

\* The failure message ends with the message of the last result.
MsgFailed == "Scheduled booking failed after 3 attempts."

MsgFailedUnavailable == "Scheduled booking failed after 3 attempts. Time not available"

MsgFailedError == "Scheduled booking failed after 3 attempts. str(e)"

\* What one factory + book_court call can end with:
\*   "success"  a result with success = True
\*   "fail"     a result with success = False that a later call may not repeat
\*   "fatal"    a result with success = False for a slot that does not exist
\*              (book_court: "No point retrying same unavailable time")
\*   "error"    the factory or book_court raised; the except clause makes
\*              {'success': False, 'message': str(e)} of it
Results == {"success", "fail", "fatal", "error"}

NoRow ==
    [ user_id |-> 0, booking_date |-> NoDate, booking_time |-> "", court |-> "",
      fire_at |-> NoDateTime, status |-> "none", attempt_count |-> 0, message |-> "" ]

Rows == { j \in JobIds : db[j].status # "none" }

\* Positions of _execute at which the coroutine is suspended in an await.
Awaiting ==
    {"notify_start", "booking", "sleep", "notify_retry", "notify_nocreds",
     "notify_final"}

\* Positions at which the run has ended.
\* ("aborted": a JobStore call raised; "unnotified": _notify raised;
\* "cancelled": the task was cancelled.)
Ended == {"collided", "nocreds", "finished", "aborted", "unnotified", "cancelled"}

InFlight(j) == run[j].pc \in Awaiting

\* ------------------------------------------------------------- JobStore
\* The scheduled_bookings methods of Database, as the scheduler and the bot
\* call them.

\* INSERT of a new row in status pending; the id is the next AUTOINCREMENT value.
add_scheduled_booking(d, id, user_id, booking_date, booking_time, court, fire_at) ==
    [ d EXCEPT ![id] =
        [ user_id |-> user_id, booking_date |-> booking_date,
          booking_time |-> booking_time, court |-> court, fire_at |-> fire_at,
          status |-> "pending", attempt_count |-> 0, message |-> "" ] ]

\* Mutant of update_scheduled_booking_status: the write also clears fire_at.
update_status_clears_fire_at(d, id, status, message) ==
    [ d EXCEPT ![id].status = status, ![id].message = message,
               ![id].fire_at = NoDateTime ]

\* UPDATE ... SET status, message WHERE id: a plain write, whatever the row holds.
update_scheduled_booking_status(d, id, status, message) ==
    [ d EXCEPT ![id].status = status, ![id].message = message ]

increment_scheduled_booking_attempts(d, id) ==
    [ d EXCEPT ![id].attempt_count = @ + 1 ]

\* Whether the cancel applies: the row is the caller's and still pending.
cancel_applies(d, id, user_id) ==
    d[id].status = "pending" /\ d[id].user_id = user_id

cancel_scheduled_booking(d, id, user_id) ==
    IF cancel_applies(d, id, user_id)
    THEN [ d EXCEPT ![id].status = "cancelled" ]
    ELSE d

\* ------------------------------------------------------------ scheduler

\* Mutant of get_all_pending_jobs: the WHERE clause is lost.
get_all_jobs == { j \in JobIds : db[j] # NoRow }

\* SELECT * FROM scheduled_bookings WHERE status = 'pending'
get_all_pending_jobs == { j \in JobIds : db[j].status = "pending" }

\* Mutant of armed_by_start: the first exception ends the loop of start.
armed_until_first_error ==
    { j \in get_all_pending_jobs :
        \A k \in get_all_pending_jobs :
            k <= j => ~ fromisoformat_raises(db[k].fire_at) }

\* The jobs the loop of start arms: each pending row, in its own try/except
\* around fromisoformat and _scheduler.add_job.
armed_by_start ==
    { j \in get_all_pending_jobs : ~ fromisoformat_raises(db[j].fire_at) }

\* Mutant of add_job: arming one job arms every pending job once more.
add_job_rearms_pending(t, j) == t \cup {j} \cup get_all_pending_jobs

\* _scheduler.add_job(..., id=sched_<id>, replace_existing=True)
add_job(t, j) == t \cup {j}

\* Mutant of remove_job: every job is removed from the job store.
remove_job_removes_all(t, j) == {}

\* Mutant of remove_job: the timer is left armed.
remove_job_keeps_timer(t, j) == t

\* _scheduler.remove_job(sched_<id>); a JobLookupError is swallowed.
remove_job(t, j) == t \ {j}

\* DateTrigger(run_date=fire_dt) of the job sched_<j>, as start and add_job build it.
run_date(j) == fromisoformat(db[j].fire_at)

\* APScheduler's executor drops a run that is later than the grace time.
run_time_missed(fire_at) == (now - fire_at) * 60 > misfire_grace_time

\* Mutant of collision_key: the court is not part of the key.
collision_key_without_court(j) ==
    << db[j].user_id, db[j].booking_date, db[j].booking_time >>

\* Mutant of collision_key: the job id is made part of the key.
collision_key_with_job_id(j) ==
    << j, db[j].user_id, db[j].booking_date, db[j].booking_time, db[j].court >>

collision_key(j) ==
    << db[j].user_id, db[j].booking_date, db[j].booking_time, db[j].court >>

\* Mutant of collision_detected: the membership test is lost.
collision_never_detected(j) == FALSE

\* `if collision_key in self._active`, under self._lock
collision_detected(j) == collision_key(j) \in active

\* self._active.add(collision_key)
acquire(a, j) == a \cup {collision_key(j)}

\* Mutant of release: the finally clause does not cover the early return; only
\* a run that reached book_court discards its key.
release_after_loop_only(a, j) ==
    IF j \in invoked THEN a \ {collision_key(j)} ELSE a

\* Mutant of release: the key is not discarded.
no_release(a, j) == a

\* finally: self._active.discard(collision_key)
release(a, j) == a \ {collision_key(j)}

\* bot.send_message(chat_id=user_id, ...) raises
send_message_raises(user_id) == user_id \in Unreachable

\* Mutant of notify_raises: the exception of send_message leaves _notify.
notify_propagates(user_id) == send_message_raises(user_id)

\* Whether `await self._notify(user_id, ...)` raises: both send_message and
\* send_photo are inside try/except Exception, which only logs.
notify_raises(user_id) == FALSE

\* Mutant of collision_return: the rejected run discards the key on its way
\* out, as if the collision check were inside the try block.
collision_return_releases(a, j) == a \ {collision_key(j)}

\* The `return` of the collision branch: it comes before the try statement, so
\* the finally clause does not run and the active set is left as it is.
collision_return(a, j) == a

\* Mutant of loop_has_next: range(1, MAX_RETRIES_PER_JOB), one attempt short.
loop_stops_early(n) == n < MAX_RETRIES_PER_JOB - 1

\* for attempt in range(1, MAX_RETRIES_PER_JOB + 1): is there a next attempt
loop_has_next(n) == n < MAX_RETRIES_PER_JOB

\* Mutant of sleep_before_retry: the wait does not look at the attempts left.
sleep_after_every_failure(n) == TRUE

\* if attempt < self.MAX_RETRIES_PER_JOB: await asyncio.sleep(5)
sleep_before_retry(n) == n < MAX_RETRIES_PER_JOB

\* Mutant of loop_breaks: the break is lost.
loop_never_breaks(r) == FALSE

\* if result.get('success'): break
loop_breaks(r) == r = "success"

\* Mutant of final_status: the status written is not a terminal one.
final_status_pending(r) == "pending"

\* if result and result.get('success'): status = 'success' else 'failed'
final_status(r) == IF r = "success" THEN "success" ELSE "failed"

\* Mutant of final_message: the message of the last result is left out.
final_message_without_text(r) == IF r = "success" THEN MsgConfirmed ELSE MsgFailed

\* msg, with result.get('message', 'Unknown error') as its last line
final_message(r) ==
    CASE r = "success" -> MsgConfirmed
      [] r = "fatal" -> MsgFailedUnavailable
      [] r = "error" -> MsgFailedError
      [] OTHER -> MsgFailed

\* No call of compute_fire_at was made yet.
NoCall == [ booking_date |-> NoDate, fire_at |-> NoDateTime ]

\* ---------------------------------------------------------------- Init
\* A fresh installation: the table is empty, the scheduler is constructed
\* (BookingScheduler.__init__) and not yet started.

Init ==
    /\ now = 0
    /\ phase = "init"
    /\ restarts = 0
    /\ db = [ j \in JobIds |-> NoRow ]
    /\ timers = {}
    /\ active = {}
    /\ run = [ j \in JobIds |-> Frame("idle") ]
    /\ loopEntries = [ j \in JobIds |-> 0 ]
    /\ invoked = {}
    /\ missed = {}
    /\ lateAtStart = {}
    /\ cancelledEarly = {}
    /\ computed = NoCall

\* ------------------------------------------------- scheduler operations

\* BookingScheduler.start: arm a DateTrigger job for every pending row, then
\* start the scheduler.
start ==
    /\ phase = "init"
    /\ phase' = "running"
    /\ timers' = timers \cup UNION { add_job({}, j) : j \in armed_by_start }
    /\ lateAtStart' = { j \in armed_by_start : run_date(j) < now }
    /\ UNCHANGED << now, restarts, db, active, run, loopEntries, invoked, missed,
                    cancelledEarly, computed >>

\* TennisBookingBot._execute_booking, scheduled path, from the insert on:
\* with the fire time computed, insert the row, then hand it to
\* BookingScheduler.add_job.  An exception of compute_fire_at leaves the
\* handler before the insert.  This is the handler as it creates the jobs the
\* scheduler is checked on; the strptime call that stands between
\* compute_fire_at and the insert is in execute_booking below.
schedule_booking(user_id, booking_date, booking_time, court) ==
    LET id == Cardinality(Rows) + 1
        fire_at == compute_fire_at(booking_date)
    IN  /\ phase = "running"
        /\ id \in JobIds
        /\ computed' = [ booking_date |-> booking_date, fire_at |-> fire_at ]
        /\ IF fire_at.raised # ""
           THEN UNCHANGED << db, timers >>
           ELSE \/ /\ db' = add_scheduled_booking(db, id, user_id, booking_date,
                                                  booking_time, court, fire_at)
                   /\ timers' = add_job(timers, id)
                \/ \* add_scheduled_booking returns no id: "Failed to save"
                   UNCHANGED << db, timers >>
        /\ UNCHANGED << now, phase, restarts, active, run, loopEntries, invoked,
                        missed, lateAtStart, cancelledEarly >>

\* TennisBookingBot._execute_booking, scheduled path, whole: the handler
\* parses the string of compute_fire_at with strptime before the insert, and
\* the ValueError of that call leaves the handler.
execute_booking(user_id, booking_date, booking_time, court) ==
    LET fire_at == compute_fire_at(booking_date)
    IN  IF fire_at.raised = "" /\ strptime_fire_at_raises(fire_at)
        THEN /\ phase = "running"
             /\ computed' = [ booking_date |-> booking_date, fire_at |-> fire_at ]
             /\ UNCHANGED << now, phase, restarts, db, timers, active, run,
                             loopEntries, invoked, missed, lateAtStart,
                             cancelledEarly >>
        ELSE schedule_booking(user_id, booking_date, booking_time, court)

\* TennisBookingBot.button_callback, sched_cancel_<id>: cancel in the store
\* and, when the store says it did, BookingScheduler.remove_job.
cancel_button(id, user_id) ==
    /\ phase = "running"
    /\ id \in Rows
    /\ db' = cancel_scheduled_booking(db, id, user_id)
    /\ timers' = IF cancel_applies(db, id, user_id)
                 THEN remove_job(timers, id)
                 ELSE timers
    /\ cancelledEarly' =
           IF cancel_applies(db, id, user_id) /\ run_date(id) > now
           THEN cancelledEarly \cup {id}
           ELSE cancelledEarly
    /\ UNCHANGED << now, phase, restarts, active, run, loopEntries, invoked,
                    missed, lateAtStart, computed >>

\* A DateTrigger job becomes due: APScheduler takes it out of its job store
\* and submits _execute(job) as a new task, unless the run time was missed.
fire(j) ==
    /\ phase = "running"
    /\ j \in timers
    /\ run_date(j) <= now
    /\ timers' = timers \ {j}
    /\ IF run_time_missed(run_date(j))
       THEN /\ missed' = missed \cup {j}
            /\ run' = run
       ELSE /\ run' = [ run EXCEPT ![j] = Frame("fired") ]
            /\ missed' = missed
    /\ UNCHANGED << now, phase, restarts, db, active, loopEntries, invoked,
                    lateAtStart, cancelledEarly, computed >>

\* ------------------------------------------------------------- _execute
\* One action per stretch of _execute between two awaits.  The fragments
\* below take the frame f as the stretch has left it so far and say what the
\* rest of the stretch does to run[j], db, active and invoked.

\* An exception leaves the try block: the finally clause releases the key.
execute_raises(j) ==
    /\ run' = [ run EXCEPT ![j] = Frame("aborted") ]
    /\ active' = release(active, j)
    /\ UNCHANGED << db, invoked >>

\* An exception of _notify leaves the try block the same way.
execute_notify_raises(j) ==
    /\ run' = [ run EXCEPT ![j] = Frame("unnotified") ]
    /\ active' = release(active, j)
    /\ UNCHANGED << db, invoked >>

\* Top of a loop iteration: count the attempt, then either announce the
\* retry (attempt > 1) or go straight into factory + book_court.
execute_attempt(j, f) ==
    \/ /\ db' = increment_scheduled_booking_attempts(db, j)
       /\ IF f.attempt + 1 > 1
          THEN /\ run' = [ run EXCEPT ![j] =
                             [ f EXCEPT !.attempt = @ + 1, !.pc = "notify_retry" ] ]
               /\ invoked' = invoked
          ELSE /\ run' = [ run EXCEPT ![j] =
                             [ f EXCEPT !.attempt = @ + 1, !.pc = "booking" ] ]
               /\ invoked' = invoked \cup {j}
       /\ active' = active
    \/ \* increment_scheduled_booking_attempts raises
       execute_raises(j)

\* After the loop: write the final status, then await the final notification.
execute_update_status(j, f) ==
    \/ /\ db' = update_scheduled_booking_status(db, j, final_status(f.result),
                                                final_message(f.result))
       /\ run' = [ run EXCEPT ![j] = [ f EXCEPT !.pc = "notify_final" ] ]
       /\ UNCHANGED << active, invoked >>
    \/ \* update_scheduled_booking_status raises
       execute_raises(j)

\* The for statement: the next iteration, or the code after the loop.
execute_next(j, f) ==
    IF loop_has_next(f.attempt)
    THEN execute_attempt(j, f)
    ELSE execute_update_status(j, f)

\* The task starts: collision check and insert under the lock, up to the
\* first await (the "firing now" notification).
execute_begin(j) ==
    /\ phase = "running"
    /\ run[j].pc = "fired"
    /\ IF collision_detected(j)
       THEN \/ /\ db' = update_scheduled_booking_status(db, j, "failed",
                                                        MsgCollision)
               /\ run' = [ run EXCEPT ![j] = Frame("collided") ]
               /\ active' = collision_return(active, j)
            \/ \* update_scheduled_booking_status raises, outside the try block
               /\ run' = [ run EXCEPT ![j] = Frame("aborted") ]
               /\ UNCHANGED << db, active >>
       ELSE /\ active' = acquire(active, j)
            /\ run' = [ run EXCEPT ![j].pc = "notify_start" ]
            /\ db' = db
    /\ UNCHANGED << now, phase, restarts, timers, loopEntries, invoked, missed,
                    lateAtStart, cancelledEarly, computed >>

\* After the first notification: fetch the credentials; without them mark
\* the job failed, with them enter the retry loop.
execute_credentials(j) ==
    /\ phase = "running"
    /\ run[j].pc = "notify_start"
    /\ IF notify_raises(db[j].user_id)
       THEN /\ execute_notify_raises(j)
            /\ loopEntries' = loopEntries
       ELSE \/ \* get_user_credentials returns nothing
               /\ \/ /\ db' = update_scheduled_booking_status(db, j, "failed",
                                                              MsgNoCredentials)
                     /\ run' = [ run EXCEPT ![j].pc = "notify_nocreds" ]
                     /\ UNCHANGED << active, invoked >>
                  \/ execute_raises(j)
               /\ loopEntries' = loopEntries
            \/ \* credentials found
               /\ execute_next(j, run[j])
               /\ loopEntries' = [ loopEntries EXCEPT ![j] = @ + 1 ]
    /\ UNCHANGED << now, phase, restarts, timers, missed, lateAtStart,
                    cancelledEarly, computed >>

\* The retry notification was sent: factory + book_court.
execute_retry(j) ==
    /\ phase = "running"
    /\ run[j].pc = "notify_retry"
    /\ IF notify_raises(db[j].user_id)
       THEN execute_notify_raises(j)
       ELSE /\ run' = [ run EXCEPT ![j].pc = "booking" ]
            /\ invoked' = invoked \cup {j}
            /\ UNCHANGED << db, active >>
    /\ UNCHANGED << now, phase, restarts, timers, loopEntries, missed,
                    lateAtStart, cancelledEarly, computed >>

\* The factory + book_court call of this attempt ends, with one of Results.
execute_booked(j, r) ==
    LET f == [ run[j] EXCEPT
                 !.result = r,
                 !.returned = @ + 1,
                 !.firstSuccess = IF r = "success" /\ @ = 0
                                  THEN run[j].returned + 1 ELSE @ ]
    IN  /\ phase = "running"
        /\ run[j].pc = "booking"
        /\ IF loop_breaks(r)
           THEN execute_update_status(j, f)
           ELSE IF sleep_before_retry(f.attempt)
                THEN /\ run' = [ run EXCEPT ![j] =
                                   [ f EXCEPT !.pc = "sleep", !.waits = @ + 1 ] ]
                     /\ UNCHANGED << db, active, invoked >>
                ELSE execute_next(j, f)
        /\ UNCHANGED << now, phase, restarts, timers, loopEntries, missed,
                        lateAtStart, cancelledEarly, computed >>

\* BookingEngine.book_court drives Selenium: webdriver.Chrome(...),
\* driver.get(url) and WebDriverWait.until(...) are blocking calls made on
\* the thread of the event loop.  While one of them lasts no callback, task
\* or timer of the loop runs, and the clock goes on.
book_court_blocks(j) ==
    /\ phase = "running"
    /\ run[j].pc = "booking"
    /\ \E t \in Instants : t > now
    /\ now' = CHOOSE t \in Instants :
                  t > now /\ \A u \in Instants : u > now => t <= u
    /\ UNCHANGED << phase, restarts, db, timers, active, run, loopEntries,
                    invoked, missed, lateAtStart, cancelledEarly, computed >>

\* asyncio.sleep(5) is over: back to the for statement.
execute_wake(j) ==
    /\ phase = "running"
    /\ run[j].pc = "sleep"
    /\ execute_next(j, run[j])
    /\ UNCHANGED << now, phase, restarts, timers, loopEntries, missed,
                    lateAtStart, cancelledEarly, computed >>

\* The last notification was sent: the run returns through the finally clause.
execute_finally(j) ==
    /\ phase = "running"
    /\ run[j].pc \in {"notify_final", "notify_nocreds"}
    /\ IF notify_raises(db[j].user_id)
       THEN execute_notify_raises(j)
       ELSE /\ run' = [ run EXCEPT ![j] = IF run[j].pc = "notify_final"
                                         THEN Frame("finished")
                                         ELSE Frame("nocreds") ]
            /\ active' = release(active, j)
            /\ UNCHANGED << db, invoked >>
    /\ UNCHANGED << now, phase, restarts, timers, loopEntries, missed,
                    lateAtStart, cancelledEarly, computed >>

\* -------------------------------------------------------- process life

\* BookingScheduler.stop, called from TennisBookingBot.run on SIGINT/SIGTERM:
\* the executor's shutdown cancels every task it still has, and the event
\* loop is closed.  A cancelled _execute leaves through its finally clause.
stop ==
    /\ phase = "running"
    /\ phase' = "stopped"
    /\ run' = [ j \in JobIds |->
                  IF run[j].pc \in Awaiting \cup {"fired"}
                  THEN Frame("cancelled") ELSE run[j] ]
    /\ active' = { k \in active :
                     \A j \in JobIds : InFlight(j) => k \in release(active, j) }
    /\ UNCHANGED << now, restarts, db, timers, loopEntries, invoked, missed,
                    lateAtStart, cancelledEarly, computed >>

\* A new process: a new BookingScheduler with an empty job store and an empty
\* active set; only the database survives.
new_process ==
    /\ restarts < MaxRestarts
    /\ restarts' = restarts + 1
    /\ phase' = "init"
    /\ timers' = {}
    /\ active' = {}
    /\ run' = [ j \in JobIds |-> Frame("idle") ]
    /\ missed' = {}
    /\ lateAtStart' = {}
    /\ UNCHANGED << now, db, loopEntries, invoked, cancelledEarly, computed >>

\* The bot is started again after stop.
restart ==
    /\ phase = "stopped"
    /\ new_process

\* The process dies while running and is started again.
crash ==
    /\ phase = "running"
    /\ new_process

\* Time passes.  A running scheduler wakes up at the run time of its next
\* job, so the clock does not pass a due timer of a running scheduler whose
\* event loop is free (book_court_blocks is the step in which it is not).
advance ==
    /\ \E t \in Instants : t > now
    /\ ~ (phase = "running" /\ \E j \in timers : run_date(j) <= now)
    /\ now' = CHOOSE t \in Instants :
                  t > now /\ \A u \in Instants : u > now => t <= u
    /\ UNCHANGED << phase, restarts, db, timers, active, run, loopEntries,
                    invoked, missed, lateAtStart, cancelledEarly, computed >>

\* ---------------------------------------------------------------- Spec

Next ==
    \/ start
    \/ \E u \in Users, d \in Dates, t \in BookingTimes, c \in Courts :
           schedule_booking(u, d, t, c)
    \/ \E j \in JobIds, u \in Users : cancel_button(j, u)
    \/ \E j \in JobIds : fire(j)
    \/ \E j \in JobIds : execute_begin(j)
    \/ \E j \in JobIds : execute_credentials(j)
    \/ \E j \in JobIds : execute_retry(j)
    \/ \E j \in JobIds, r \in Results : execute_booked(j, r)
    \/ \E j \in JobIds : book_court_blocks(j)
    \/ \E j \in JobIds : execute_wake(j)
    \/ \E j \in JobIds : execute_finally(j)
    \/ stop
    \/ restart
    \/ crash
    \/ advance

Spec == Init /\ [][Next]_vars

\* One life of the process: from construction to stop, without a crash or a
\* second start.
NextProcess ==
    \/ start
    \/ \E u \in Users, d \in Dates, t \in BookingTimes, c \in Courts :
           schedule_booking(u, d, t, c)
    \/ \E j \in JobIds, u \in Users : cancel_button(j, u)
    \/ \E j \in JobIds : fire(j)
    \/ \E j \in JobIds : execute_begin(j)
    \/ \E j \in JobIds : execute_credentials(j)
    \/ \E j \in JobIds : execute_retry(j)
    \/ \E j \in JobIds, r \in Results : execute_booked(j, r)
    \/ \E j \in JobIds : book_court_blocks(j)
    \/ \E j \in JobIds : execute_wake(j)
    \/ \E j \in JobIds : execute_finally(j)
    \/ stop
    \/ advance

SpecProcess == Init /\ [][NextProcess]_vars

\* compute_fire_at on its own: a static method, called with one date string.
\* The strings tried spell the dates of NYears years and the near misses
\* around them (month 0 and 13, day 0, days past the end of the month).
FireAtDates ==
    { [ year |-> y, month |-> m, day |-> d ] :
          y \in 2023 .. (2022 + NYears), m \in 0 .. 13, d \in 0 .. 32 }

NotCalled == IsoDateTime("not called", NoDate, 0, 0, 0, "")

InitFireAt ==
    /\ now = 0
    /\ phase = "init"
    /\ restarts = 0
    /\ db = [ j \in JobIds |-> NoRow ]
    /\ timers = {}
    /\ active = {}
    /\ run = [ j \in JobIds |-> Frame("idle") ]
    /\ loopEntries = [ j \in JobIds |-> 0 ]
    /\ invoked = {}
    /\ missed = {}
    /\ lateAtStart = {}
    /\ cancelledEarly = {}
    /\ \E d \in FireAtDates : computed = [ booking_date |-> d, fire_at |-> NotCalled ]

call_compute_fire_at ==
    /\ computed.fire_at = NotCalled
    /\ computed' = [ computed EXCEPT !.fire_at = compute_fire_at(computed.booking_date) ]
    /\ UNCHANGED << now, phase, restarts, db, timers, active, run, loopEntries,
                    invoked, missed, lateAtStart, cancelledEarly >>

NextFireAt == call_compute_fire_at

SpecFireAt == InitFireAt /\ [][NextFireAt]_vars

\* The bot's handlers only, before any job is due: users ask for scheduled
\* bookings, with dates some of which are not dates of the calendar, and
\* cancel them.
CreateDates ==
    Dates \cup
    { [ year |-> 2024, month |-> 3, day |-> 11 ],
      [ year |-> 2024, month |-> 3, day |-> 12 ],
      [ year |-> 2024, month |-> 2, day |-> 30 ],
      [ year |-> 2023, month |-> 2, day |-> 29 ],
      [ year |-> 2024, month |-> 4, day |-> 31 ],
      [ year |-> 2024, month |-> 13, day |-> 1 ] }

NextCreate ==
    \/ start
    \/ \E u \in Users, d \in CreateDates, t \in BookingTimes, c \in Courts :
           schedule_booking(u, d, t, c)
    \/ \E j \in JobIds, u \in Users : cancel_button(j, u)

SpecCreate == Init /\ [][NextCreate]_vars

\* ------------------------------------------------------------ scheduling
\* The asyncio event loop resumes every task whose await has completed: a
\* notification that was sent or failed, a sleep that is over, a task that
\* was created.  The specifications below state this for one life of the
\* process that is not stopped.

\* The steps of _execute the event loop takes by itself.
run_step(j) ==
    \/ execute_begin(j)
    \/ execute_credentials(j)
    \/ execute_retry(j)
    \/ execute_wake(j)
    \/ execute_finally(j)

\* The factory + book_court call of the current attempt returns or raises.
executor_returns(j) == \E r \in Results : execute_booked(j, r)

\* No JobStore call of this step raised.
store_works == \A j \in JobIds : run'[j].pc # "aborted"

\* A process that is not stopped, whose JobStore may raise.
NextFair ==
    \/ start
    \/ \E u \in Users, d \in Dates, t \in BookingTimes, c \in Courts :
           schedule_booking(u, d, t, c)
    \/ \E j \in JobIds, u \in Users : cancel_button(j, u)
    \/ \E j \in JobIds : fire(j)
    \/ \E j \in JobIds : run_step(j)
    \/ \E j \in JobIds : executor_returns(j)
    \/ \E j \in JobIds : book_court_blocks(j)
    \/ advance

\* The event loop is fair to every run, and every book_court call ends.
SpecFair ==
    /\ Init
    /\ [][NextFair]_vars
    /\ \A j \in JobIds : WF_vars(run_step(j)) /\ WF_vars(executor_returns(j))

\* The same with a JobStore that works.
NextLive ==
    \/ start
    \/ \E u \in Users, d \in Dates, t \in BookingTimes, c \in Courts :
           schedule_booking(u, d, t, c)
    \/ \E j \in JobIds, u \in Users : cancel_button(j, u)
    \/ \E j \in JobIds : fire(j)
    \/ \E j \in JobIds : run_step(j) /\ store_works
    \/ \E j \in JobIds : executor_returns(j) /\ store_works
    \/ \E j \in JobIds : book_court_blocks(j)
    \/ advance

SpecLive ==
    /\ Init
    /\ [][NextLive]_vars
    /\ \A j \in JobIds :
           /\ WF_vars(run_step(j) /\ store_works)
           /\ WF_vars(executor_returns(j) /\ store_works)

\* The JobStore works and the event loop is fair, but a book_court call need
\* not end.
SpecHung ==
    /\ Init
    /\ [][NextLive]_vars
    /\ \A j \in JobIds : WF_vars(run_step(j) /\ store_works)

\* Requests for two start times and two courts, in a process that is not
\* stopped.
SlotTimes == {"18:00", "19:00"}

SlotCourts == {"Amaranta B", "Amaranta 3"}

NextSlots ==
    \/ start
    \/ \E u \in Users, d \in Dates, t \in SlotTimes, c \in SlotCourts :
           schedule_booking(u, d, t, c)
    \/ \E j \in JobIds : fire(j)
    \/ \E j \in JobIds : run_step(j)
    \/ \E j \in JobIds : executor_returns(j)
    \/ \E j \in JobIds : book_court_blocks(j)
    \/ advance

SpecSlots == Init /\ [][NextSlots]_vars

\* A process that starts on a table other programs and earlier versions have
\* written to: a row may hold a fire_at that is not an ISO datetime.
StoredFireAt ==
    { compute_fire_at(d) : d \in Dates }
        \cup { IsoDateTime("", [ year |-> 2024, month |-> 13, day |-> 3 ],
                             0, TRIGGER_MINUTE, 0, DUBAI_TZ),
               NoDateTime }

StoredRows ==
    {NoRow} \cup
    [ user_id : Users, booking_date : Dates, booking_time : BookingTimes,
      court : Courts, fire_at : StoredFireAt, status : Statuses \ {"executing"},
      attempt_count : {0}, message : {""} ]

InitStart ==
    /\ now = 0
    /\ phase = "init"
    /\ restarts = 0
    /\ db \in [ JobIds -> StoredRows ]
    /\ timers = {}
    /\ active = {}
    /\ run = [ j \in JobIds |-> Frame("idle") ]
    /\ loopEntries = [ j \in JobIds |-> 0 ]
    /\ invoked = {}
    /\ missed = {}
    /\ lateAtStart = {}
    /\ cancelledEarly = {}
    /\ computed = NoCall

NextStart ==
    \/ start
    \/ \E j \in JobIds : fire(j)
    \/ \E j \in JobIds : run_step(j)
    \/ \E j \in JobIds : executor_returns(j)
    \/ \E j \in JobIds : book_court_blocks(j)
    \/ advance

SpecStart == InitStart /\ [][NextStart]_vars

\* The bot's handlers whole, on a table that already holds rows.
ConfirmRows ==
    { r \in StoredRows : r = NoRow \/ ~ fromisoformat_raises(r.fire_at) }

InitConfirm ==
    /\ now = 0
    /\ phase = "init"
    /\ restarts = 0
    /\ db \in [ JobIds -> ConfirmRows ]
    /\ timers = {}
    /\ active = {}
    /\ run = [ j \in JobIds |-> Frame("idle") ]
    /\ loopEntries = [ j \in JobIds |-> 0 ]
    /\ invoked = {}
    /\ missed = {}
    /\ lateAtStart = {}
    /\ cancelledEarly = {}
    /\ computed = NoCall

NextConfirm ==
    \/ start
    \/ \E u \in Users, d \in CreateDates, t \in BookingTimes, c \in Courts :
           execute_booking(u, d, t, c)
    \/ \E j \in JobIds, u \in Users : cancel_button(j, u)
    \/ advance

SpecConfirm == InitConfirm /\ [][NextConfirm]_vars

\* The schedule menu on its own: _show_schedule_dates reads the clock of the
\* host with datetime.now(), a naive local time, and offers the dates 8 to 21
\* days after it.  Nothing in the repository sets the time zone of the host,
\* so its UTC offset is an input: every whole hour from -12 to +14.
MenuDays == 2

UtcOffsets == { h * 60 : h \in -12 .. 14 }

\* Asia/Dubai is four hours ahead of UTC.
dubai_utcoffset == 4 * 60

\* The instants at which the menu is opened: the first, the second and the
\* last minute of every hour of MenuDays days.
MenuTimes ==
    { d * MinutesPerDay + h * 60 + m :
          d \in 1 .. MenuDays, h \in 0 .. 23, m \in {0, 1, 59} }

\* datetime.now() on a host whose local time has this UTC offset, in minutes
\* since 00:00 of ClockStart on the host's wall clock.
datetime_now(utcoffset) == now + (utcoffset - dubai_utcoffset)

\* (today + timedelta(days=i)).strftime("%Y-%m-%d")
date_str(today, i) == ord2ymd(ymd2ord(ClockStart) + (today \div MinutesPerDay) + i)

\* range(8, 22)
schedule_range == 8 .. 21

NoMenu == [ utcoffset |-> 0, shown |-> FALSE, offered |-> {} ]

InitMenu ==
    /\ now \in MenuTimes
    /\ phase = "init"
    /\ restarts = 0
    /\ db = [ j \in JobIds |-> NoRow ]
    /\ timers = {}
    /\ active = {}
    /\ run = [ j \in JobIds |-> Frame("idle") ]
    /\ loopEntries = [ j \in JobIds |-> 0 ]
    /\ invoked = {}
    /\ missed = {}
    /\ lateAtStart = {}
    /\ cancelledEarly = {}
    /\ \E o \in UtcOffsets : computed = [ NoMenu EXCEPT !.utcoffset = o ]

\* _show_schedule_dates: one button per date, callback_data sched_date_<date>.
show_schedule_dates ==
    /\ ~ computed.shown
    /\ LET today == datetime_now(computed.utcoffset)
       IN  computed' = [ computed EXCEPT
                           !.shown = TRUE,
                           !.offered = { date_str(today, i) : i \in schedule_range } ]
    /\ UNCHANGED << now, phase, restarts, db, timers, active, run, loopEntries,
                    invoked, missed, lateAtStart, cancelledEarly >>

NextMenu == show_schedule_dates

SpecMenu == InitMenu /\ [][NextMenu]_vars

TypeOK ==
    /\ now \in Instants
    /\ phase \in {"init", "running", "stopped"}
    /\ restarts \in 0 .. MaxRestarts
    /\ \A j \in JobIds : db[j].status \in Statuses \cup {"none"}
    /\ timers \subseteq JobIds
    /\ \A j \in JobIds : run[j].pc \in {"idle", "fired"} \cup Awaiting \cup Ended
    /\ \A j \in JobIds : run[j].attempt \in 0 .. MAX_RETRIES_PER_JOB

\* --------------------------------------------------------------- claims

\* Two rows ask for the same slot for the same user.
SameSlot(j, k) ==
    /\ db[j].user_id = db[k].user_id
    /\ db[j].booking_date = db[k].booking_date
    /\ db[j].booking_time = db[k].booking_time
    /\ db[j].court = db[k].court

\* C1: at most one _execute run is between acquiring and releasing a given
\* collision key (user_id, booking_date, booking_time, court): two runs that
\* are both in flight never ask for the same slot for the same user.
C1_MutualExclusion ==
    \A j \in JobIds, k \in JobIds :
        (j # k /\ InFlight(j) /\ InFlight(k)) => ~ SameSlot(j, k)

\* Witness of C1: a second job with the same key started while the first was
\* in flight, and was turned away.
C1_Witness ==
    \E j \in JobIds, k \in JobIds :
        /\ j # k
        /\ SameSlot(j, k)
        /\ InFlight(k)
        /\ run[j].pc = "collided"

\* Another job holds the key of j: it is in flight for the same slot and user.
KeyHeldByOther(j) ==
    \E k \in JobIds \ {j} : InFlight(k) /\ SameSlot(j, k)

\* The state a rejected job is left in: failed with the collision message,
\* no timer, never in the retry loop, book_court never invoked.
Rejected(j) ==
    /\ db[j].status = "failed"
    /\ db[j].message = MsgCollision
    /\ j \notin timers
    /\ j \notin invoked
    /\ loopEntries[j] = 0

\* C2: when a job starts while another job with the same collision key is in
\* flight, the starting job is rejected in that same step: with the store
\* accepting the write it is marked failed with the collision message; it
\* invokes book_court zero times, is not retried and is not queued (no timer,
\* no wait), and the job in flight goes on untouched, holding the key.
C2_CollisionRejected ==
    /\ [](\A j \in JobIds : run[j].pc = "collided" => Rejected(j))
    /\ [][\A j \in JobIds :
            (execute_begin(j) /\ KeyHeldByOther(j)) =>
                /\ run'[j].pc \in {"collided", "aborted"}
                /\ j \notin invoked' /\ j \notin timers'
                /\ loopEntries'[j] = 0
                /\ active' = active
                /\ \A k \in JobIds \ {j} : run'[k] = run[k] /\ db'[k] = db[k]]_vars

\* Witness of C2: of two jobs with the same key, one went through normal
\* execution to success or failed and the other was rejected.
C2_Witness ==
    \E j \in JobIds, k \in JobIds :
        /\ j # k
        /\ SameSlot(j, k)
        /\ run[j].pc = "collided" /\ Rejected(j)
        /\ run[k].pc = "finished"
        /\ db[k].status \in {"success", "failed"}
        /\ db[k].message \in {MsgConfirmed, MsgFailed}
        /\ active = {}

\* C3: the active set holds exactly the keys of the runs in flight: a run
\* that acquired its key has removed it when it ends, however it ends
\* (success, exhausted retries, missing credentials, a JobStore exception,
\* cancellation of the task), and with no run in flight the set is empty.
C3_GuaranteedRelease ==
    active = { collision_key(j) : j \in { i \in JobIds : InFlight(i) } }

\* Witness of C3: one run was ended by a JobStore exception after it had
\* invoked book_court, another was cancelled in its retry loop, and the set
\* is empty.
C3_Witness ==
    \E j \in JobIds, k \in JobIds :
        /\ run[j].pc = "aborted" /\ j \in invoked
        /\ run[k].pc = "cancelled" /\ k \in invoked
        /\ active = {}

\* C4 (as claimed): no job has more than one run that enters the retry loop,
\* whatever the timer fires, crashes and restarts.
C4_NoDoubleExecution ==
    \A j \in JobIds : loopEntries[j] <= 1

AllowedEdges ==
    { << "pending", "executing" >>, << "executing", "success" >>,
      << "executing", "failed" >>, << "pending", "cancelled" >> }

\* C5 (as claimed): every change of the stored status of an existing row is
\* one of the allowed edges, and whenever a book_court call is in progress
\* for a job its stored status is executing.
C5_StatusEdges ==
    [][\A j \in JobIds :
         /\ (db[j].status # "none" /\ db'[j].status # db[j].status)
                => << db[j].status, db'[j].status >> \in AllowedEdges
         /\ run'[j].pc = "booking" => db'[j].status = "executing"]_vars

\* C6 (as claimed): once the stored status of a job is success, failed or
\* cancelled, no step changes it.
C6_TerminalAbsorbing ==
    [][\A j \in JobIds :
         db[j].status \in Terminal => db'[j].status = db[j].status]_vars

\* C7: a run (with credentials, the store accepting its writes) in which
\* every book_court call failed or raised reaches its final status write
\* after exactly MAX_RETRIES_PER_JOB calls, and the status written is failed.
C7_AlwaysFailing ==
    \A j \in JobIds :
        (run[j].pc = "notify_final" /\ run[j].firstSuccess = 0) =>
            /\ run[j].returned = MAX_RETRIES_PER_JOB
            /\ db[j].status = "failed"

\* Witness of C7: a run whose three calls all failed has written failed.
C7_Witness ==
    \E j \in JobIds :
        /\ run[j].pc = "notify_final"
        /\ run[j].firstSuccess = 0
        /\ run[j].returned = MAX_RETRIES_PER_JOB
        /\ db[j].status = "failed"
        /\ db[j].attempt_count = MAX_RETRIES_PER_JOB

\* C8: a run whose first successful book_court call is its k-th reaches its
\* final status write after exactly k calls and k - 1 back-off waits, and the
\* status written is success.
C8_FirstSuccess ==
    \A j \in JobIds :
        (run[j].pc = "notify_final" /\ run[j].firstSuccess > 0) =>
            /\ run[j].returned = run[j].firstSuccess
            /\ run[j].waits = run[j].firstSuccess - 1
            /\ run[j].attempt = run[j].firstSuccess
            /\ db[j].status = "success"

\* Witness of C8: a run that succeeded on its second attempt.
C8_Witness ==
    \E j \in JobIds :
        /\ run[j].pc = "notify_final"
        /\ run[j].firstSuccess = 2
        /\ run[j].returned = 2
        /\ db[j].status = "success"

\* C9: a job cancelled while pending with fire_at still in the future stays
\* cancelled, has no timer, is never run and book_court is never invoked for
\* it, also after its fire time has passed and after a restart.
C9_CancelledNeverRuns ==
    \A j \in cancelledEarly :
        /\ db[j].status = "cancelled"
        /\ j \notin timers
        /\ run[j].pc = "idle"
        /\ j \notin invoked
        /\ loopEntries[j] = 0

\* Witness of C9: a job cancelled early, its fire time reached by a running
\* scheduler that was started again after the cancel.
C9_Witness ==
    \E j \in cancelledEarly :
        /\ run_date(j) <= now
        /\ restarts > 0
        /\ phase = "running"

\* C10 (as claimed): a pending job whose fire_at is already in the past when
\* start() runs is not skipped as a missed fire.
C10_LateJobDispatched ==
    \A j \in lateAtStart : j \notin missed

\* The calendar, as the claims about dates read it.
MonthLength(y, m) ==
    CASE m \in {1, 3, 5, 7, 8, 10, 12} -> 31
      [] m \in {4, 6, 9, 11} -> 30
      [] OTHER -> IF (y % 400 = 0) \/ (y % 4 = 0 /\ y % 100 # 0) THEN 29 ELSE 28

IsCalendarDate(d) ==
    d.year >= 1 /\ d.month \in 1 .. 12 /\ d.day \in 1 .. MonthLength(d.year, d.month)

PrevDay(d) ==
    IF d.day > 1 THEN [ d EXCEPT !.day = @ - 1 ]
    ELSE IF d.month > 1
         THEN [ year |-> d.year, month |-> d.month - 1,
                day |-> MonthLength(d.year, d.month - 1) ]
         ELSE [ year |-> d.year - 1, month |-> 12, day |-> 31 ]

RECURSIVE DaysBefore(_, _)
DaysBefore(d, n) == IF n = 0 THEN d ELSE DaysBefore(PrevDay(d), n - 1)

\* C13: for every booking date that is a date of the calendar, compute_fire_at
\* returns the date 7 calendar days earlier at 00:01:00, carrying the
\* scheduler's timezone (Asia/Dubai, +04:00), so it is timezone-aware.
C13_FireAtIsCalendar ==
    (computed.fire_at # NotCalled /\ IsCalendarDate(computed.booking_date)) =>
        /\ computed.fire_at =
               IsoDateTime("", DaysBefore(computed.booking_date, 7), 0, 1, 0, "+04:00")
        /\ computed.fire_at.tzinfo # ""

\* Witness of C13: the booking date 2024-03-10 gave 2024-03-03 at 00:01:00.
C13_Witness ==
    /\ computed.booking_date = [ year |-> 2024, month |-> 3, day |-> 10 ]
    /\ computed.fire_at =
           [ raised |-> "", year |-> 2024, month |-> 3, day |-> 3,
             hour |-> 0, minute |-> 1, second |-> 0, tzinfo |-> "+04:00" ]

\* C19: a scheduled booking asked for with a booking date that is not a date
\* of the calendar fails in the handler with ValueError, raised by
\* compute_fire_at before the insert: no row is inserted and no timer is armed.
\* (The lead window is the constant LEAD_DAYS, never an input.)
C19_ValidationError ==
    [][\A u \in Users, d \in CreateDates, t \in BookingTimes, c \in Courts :
         (schedule_booking(u, d, t, c) /\ ~ IsCalendarDate(d)) =>
             /\ computed'.fire_at.raised = "ValueError"
             /\ db' = db
             /\ timers' = timers]_vars

\* Witness of C19: with one booking stored and armed, the last request named
\* a day that does not exist and was refused; the table and the timers hold
\* the one job only.
C19_Witness ==
    /\ ~ IsCalendarDate(computed.booking_date)
    /\ computed.fire_at.raised = "ValueError"
    /\ Rows = {1}
    /\ timers = {1}

\* C11 (as claimed): a press of the cancel button for a job that is not
\* pending, or whose run has already begun, or that belongs to another user,
\* changes neither the table nor the timers; and a timer goes away only when
\* the store applied the cancel.
C11_CancelRefused ==
    [][\A id \in JobIds, u \in Users :
         cancel_button(id, u) =>
             /\ (db[id].status # "pending" \/ InFlight(id) \/ db[id].user_id # u)
                    => (db' = db /\ timers' = timers)
             /\ timers' # timers => cancel_applies(db, id, u)]_vars

\* C12: remove_job takes the job's timer away when it is still armed, and
\* only that timer; called for a job whose timer has fired, it changes
\* nothing: no timer, no run and no collision key is touched, so the run goes
\* on from where it stands.
C12_RemoveJobNoOp ==
    [][\A id \in JobIds, u \in Users :
         (cancel_applies(db, id, u) /\ cancel_button(id, u)) =>
             /\ timers' = timers \ {id}
             /\ id \notin timers => timers' = timers
             /\ run' = run
             /\ active' = active]_vars

\* Witness of C12: remove_job was called for a job in its second attempt (the
\* row is cancelled, so the cancel was applied and remove_job called; the
\* timer had fired before); the run still holds its key and waits for
\* book_court, while the other job's timer is still armed.
C12_Witness ==
    \E j \in JobIds, k \in JobIds :
        /\ db[j].status = "cancelled"
        /\ run[j].pc = "booking" /\ run[j].attempt = 2
        /\ collision_key(j) \in active
        /\ k \in timers

\* C14: a factory or book_court call that raises is one failed attempt like
\* any other: the run stays in its retry loop, waits and tries again while
\* attempts remain, and after the last attempt it writes failed with a message
\* that ends with the text of the exception.
C14_ExceptionIsFailure ==
    \A j \in JobIds :
        run[j].result = "error" =>
            /\ run[j].pc \in {"sleep", "notify_retry", "booking", "notify_final"}
            /\ run[j].returned >= 1
            /\ db[j].attempt_count = run[j].attempt
            /\ run[j].pc = "sleep" =>
                   /\ run[j].attempt < MAX_RETRIES_PER_JOB
                   /\ run[j].returned = run[j].attempt
                   /\ run[j].waits = run[j].attempt
            /\ run[j].pc \in {"notify_retry", "booking"} =>
                   run[j].returned = run[j].attempt - 1
            /\ run[j].pc = "notify_final" =>
                   /\ run[j].returned = MAX_RETRIES_PER_JOB
                   /\ db[j].status = "failed"
                   /\ db[j].message = MsgFailedError

\* Witness of C14: the third call of a run raised; the run has written failed
\* with the text of the exception and is sending the final notification.
C14_Witness ==
    \E j \in JobIds :
        /\ run[j].result = "error"
        /\ run[j].pc = "notify_final"
        /\ run[j].returned = MAX_RETRIES_PER_JOB
        /\ run[j].waits = MAX_RETRIES_PER_JOB - 1
        /\ db[j].status = "failed"
        /\ db[j].message = MsgFailedError

\* C15 (as claimed): after a book_court call that reported the slot as not
\* existing, the run makes no further attempt: it writes failed and sends the
\* final notification.
C15_FatalShortCircuits ==
    \A j \in JobIds :
        run[j].result = "fatal" =>
            /\ run[j].pc = "notify_final"
            /\ db[j].status = "failed"

\* C16: no run is ever ended by its notifier; and for a user send_message
\* raises for, every step a run takes out of a notification is the step it
\* takes when the message was sent: after the retry notice it calls
\* book_court, after the last notification it returns and its key is
\* released, and no such step touches the status (the only other way out is
\* the cancellation of the task by stop); while the last notification is
\* tried, the row holds the status the last result stands for.
C16_NotifierFailureHarmless ==
    /\ [](\A j \in JobIds :
             /\ run[j].pc # "unnotified"
             /\ (send_message_raises(db[j].user_id) /\ run[j].pc = "notify_final") =>
                    /\ db[j].status = final_status(run[j].result)
                    /\ collision_key(j) \in active)
    /\ [][\A j \in JobIds :
            (send_message_raises(db[j].user_id) /\ run'[j] # run[j]) =>
                /\ run[j].pc = "notify_retry" =>
                       /\ run'[j].pc \in {"booking", "cancelled"}
                       /\ db'[j] = db[j]
                /\ run[j].pc \in {"notify_final", "notify_nocreds"} =>
                       /\ run'[j].pc \in {"finished", "nocreds", "cancelled"}
                       /\ db'[j] = db[j]
                       /\ collision_key(j) \notin active'
                /\ run[j].pc = "notify_start" =>
                       db'[j].status \in {db[j].status, "failed"}]_vars

\* Witness of C16: a run for a user no message reaches (the start notice, the
\* retry notice and the final notification all failed) has booked on its
\* second attempt, returned and released its key.
C16_Witness ==
    \E j \in JobIds :
        /\ send_message_raises(db[j].user_id)
        /\ run[j].pc = "finished"
        /\ db[j].status = "success"
        /\ db[j].attempt_count = 2
        /\ active = {}

\* C17 (as claimed): a step of a run that writes success or failed into its
\* row leaves the run in the `await self._notify(user_id, msg)` that sends the
\* owner this message; the collision outcome is one of these writes.
C17_TerminalNotified ==
    [][\A j \in JobIds :
         ( /\ run'[j] # run[j]
           /\ db'[j].status # db[j].status
           /\ db'[j].status \in {"success", "failed"} ) =>
             run'[j].pc \in {"notify_final", "notify_nocreds"}]_vars

\* C18 (as claimed): no job armed by add_job on a running scheduler is dropped
\* as a missed run.  In a process every job start() did not load late was
\* armed by add_job, or by start() with its fire time still ahead, and the
\* clock does not pass the due timer of a running scheduler: a job outside
\* lateAtStart that is dropped was already due when add_job was called.
C18_LateAddDispatched ==
    \A j \in missed : j \in lateAtStart

\* C20 (as claimed): stop() cancels no run in progress.
C20_GracefulStop ==
    [][\A j \in JobIds : InFlight(j) => run'[j].pc # "cancelled"]_vars

\* The run of j has ended with success or failed in its row, and its key is
\* not held any more, unless by another job's run.
Settled(j) ==
    /\ run[j].pc \in Ended
    /\ db[j].status \in {"success", "failed"}
    /\ collision_key(j) \in active => KeyHeldByOther(j)

\* C22: with a fair event loop, every book_court call ending and the JobStore
\* working, every job that was handed to a run is eventually settled: its
\* run has ended, its row holds success or failed and its key is released.
C22_Liveness ==
    \A j \in JobIds : (run[j].pc = "fired") ~> Settled(j)

\* Witness of C22: two jobs were handed to runs and both are settled, one
\* with success after three attempts, the other for want of credentials.
C22_Witness ==
    \E j \in JobIds, k \in JobIds :
        /\ run[j].pc = "finished" /\ db[j].status = "success"
        /\ db[j].attempt_count = MAX_RETRIES_PER_JOB
        /\ run[k].pc = "nocreds" /\ db[k].status = "failed"
        /\ Settled(j) /\ Settled(k)
        /\ active = {}

\* C21: a run reaches its first book_court call only with the row moved from
\* pending to executing, and a run that starts on a row which is not pending
\* ends at once: no await, no book_court call, no write to the row, and the
\* key not held by it.
C21_PendingToExecuting ==
    [][\A j \in JobIds :
          /\ (run[j].pc # "booking" /\ run'[j].pc = "booking")
                 => db'[j].status = "executing"
          /\ (run[j].pc = "fired" /\ db[j].status # "pending"
                                  /\ run'[j] # run[j])
                 => /\ run'[j].pc \in Ended
                    /\ db'[j] = db[j]
                    /\ invoked' = invoked
                    /\ collision_key(j) \in active' => KeyHeldByOther(j)']_vars

\* C23: a book_court call that does not return is ended by a timeout: a run
\* that waits in the call eventually ends, with failed in its row and its key
\* released.
C23_HungCallTimesOut ==
    \A j \in JobIds :
        (run[j].pc = "booking")
            ~> (/\ run[j].pc \in Ended
                /\ db[j].status = "failed"
                /\ collision_key(j) \in active => KeyHeldByOther(j))

\* C24: a JobStore call that raised during a run is not the end of the job:
\* the write is tried again and the row eventually holds success or failed.
C24_StoreFailureRetried ==
    \A j \in JobIds :
        (run[j].pc = "aborted") ~> (db[j].status \in {"success", "failed"})

\* C25: runs with different keys do not exclude each other.  The lock is
\* taken and given back inside one stretch of _execute without an await, so
\* a task that was created can always take its first step, whatever the other
\* runs wait for; and when no run in flight has the same (user_id,
\* booking_date, booking_time, court), the step takes the key and goes on to
\* the start notification, and every other run keeps its key.
C25_DifferentKeysIndependent ==
    /\ [](\A j \in JobIds :
            (phase = "running" /\ run[j].pc = "fired") => ENABLED execute_begin(j))
    /\ [][\A j \in JobIds :
            (execute_begin(j) /\ ~KeyHeldByOther(j)) =>
                /\ run'[j].pc = "notify_start"
                /\ collision_key(j) \in active'
                /\ \A k \in JobIds \ {j} :
                       InFlight(k) => /\ run'[k] = run[k]
                                      /\ collision_key(k) \in active']_vars

\* Witness of C25: two jobs of one user for the same date and time on two
\* courts both hold their keys, one in its retry sleep and the other in a
\* book_court call.
C25_Witness ==
    \E j \in JobIds, k \in JobIds :
        /\ db[j].user_id = db[k].user_id
        /\ db[j].booking_date = db[k].booking_date
        /\ db[j].booking_time = db[k].booking_time
        /\ db[j].court # db[k].court
        /\ run[j].pc = "sleep" /\ run[k].pc = "booking"
        /\ collision_key(j) \in active /\ collision_key(k) \in active
        /\ collision_key(j) # collision_key(k)

\* C26: a timer that is due is dispatched without waiting for another job's
\* run: while the scheduler runs and another job's run is in a book_court
\* call or in its retry sleep, the clock does not pass the run date of an
\* armed timer before the timer is dispatched.
C26_DispatchNotDelayed ==
    [][\A j \in JobIds :
          (/\ phase = "running"
           /\ j \in timers
           /\ run_date(j) = now
           /\ \E k \in JobIds \ {j} : run[k].pc \in {"booking", "sleep"})
              => now' = now]_vars

C29_AttemptCount ==
    /\ [](\A j \in JobIds :
            db[j] # NoRow => db[j].attempt_count <= MAX_RETRIES_PER_JOB)
    /\ [][\A j \in JobIds :
            db[j] # NoRow =>
                IF run'[j].attempt = run[j].attempt + 1
                THEN db'[j].attempt_count = db[j].attempt_count + 1
                ELSE db'[j].attempt_count = db[j].attempt_count]_vars

\* C30: a run goes to its back-off wait only from a book_court call that
\* failed or raised and only with attempts left; every book_court call after
\* the first is preceded by exactly one wait more than the call before it, and
\* the final status is written after one wait less than there were calls: no
\* wait follows the last attempt or a successful one.
C30_BackOffWait ==
    /\ [](\A j \in JobIds :
            /\ run[j].pc = "sleep" =>
                   /\ run[j].result # "success"
                   /\ run[j].attempt < MAX_RETRIES_PER_JOB
                   /\ run[j].waits = run[j].returned
                   /\ run[j].returned = run[j].attempt
            /\ run[j].pc \in {"notify_retry", "booking"} =>
                   /\ run[j].waits = run[j].attempt - 1
                   /\ run[j].returned = run[j].attempt - 1
            /\ run[j].pc = "notify_final" =>
                   run[j].waits = run[j].returned - 1)
    /\ [][\A j \in JobIds :
            run'[j].waits > run[j].waits =>
                /\ run[j].pc = "booking" /\ run'[j].pc = "sleep"
                /\ run'[j].waits = run[j].waits + 1]_vars

\* Witness of C30: a run whose third call succeeded after two failures has
\* waited twice and writes its status without a third wait.
C30_Witness ==
    \E j \in JobIds :
        /\ run[j].pc = "notify_final"
        /\ run[j].firstSuccess = MAX_RETRIES_PER_JOB
        /\ run[j].returned = MAX_RETRIES_PER_JOB
        /\ run[j].waits = MAX_RETRIES_PER_JOB - 1

\* C31: a run that finds no credentials writes failed with the "no
\* credentials" message and awaits the notification of the owner, holding its
\* key; it has not called book_court and has counted no attempt; and when the
\* notification is done it returns, the row still failed, the key released.
C31_NoCredentials ==
    /\ [](\A j \in JobIds :
            /\ run[j].pc = "notify_nocreds" =>
                   /\ db[j].status = "failed"
                   /\ db[j].message = MsgNoCredentials
                   /\ collision_key(j) \in active
            /\ run[j].pc \in {"notify_nocreds", "nocreds"} =>
                   /\ j \notin invoked
                   /\ loopEntries[j] = 0
                   /\ db[j].attempt_count = 0
            /\ run[j].pc = "nocreds" =>
                   /\ db[j].status = "failed"
                   /\ db[j].message = MsgNoCredentials
                   /\ collision_key(j) \in active => KeyHeldByOther(j))
    /\ [][\A j \in JobIds :
            run'[j].pc = "nocreds" => run[j].pc \in {"notify_nocreds", "nocreds"}]_vars

\* Witness of C31: a run without credentials has returned; its row is failed
\* with no attempt counted, and no key is held.
C31_Witness ==
    \E j \in JobIds :
        /\ run[j].pc = "nocreds"
        /\ db[j].status = "failed"
        /\ db[j].message = MsgNoCredentials
        /\ db[j].attempt_count = 0
        /\ j \notin invoked
        /\ active = {}

\* C32: start arms every pending job whose stored fire_at can be parsed,
\* whatever the other rows hold, arms no job whose fire_at cannot be parsed,
\* and leaves the scheduler running.
C32_StartSkipsBadJob ==
    [][start =>
         /\ phase' = "running"
         /\ \A j \in JobIds :
                j \in timers' <=>
                    /\ db[j].status = "pending"
                    /\ ~ fromisoformat_raises(db[j].fire_at)]_vars

\* Witness of C32: the first pending row holds a fire_at that cannot be
\* parsed and has no timer; the second one was armed by the same start, has
\* fired and has run to its end in the running scheduler.
C32_Witness ==
    /\ phase = "running"
    /\ db[1].status = "pending"
    /\ fromisoformat_raises(db[1].fire_at)
    /\ 1 \notin timers /\ run[1].pc = "idle"
    /\ ~ fromisoformat_raises(db[2].fire_at)
    /\ run[2].pc = "finished"
    /\ db[2].status = "success"

\* C33: the step that rejects a job writes status and message of that job's
\* row and nothing else: the active set still holds the key, no other row and
\* no other run changes, no timer changes, and of the rejected row the owner,
\* the slot, fire_at and attempt_count stay.
C33_RejectionFrame ==
    [][\A j \in JobIds :
          (run[j].pc = "fired" /\ run'[j].pc = "collided") =>
              /\ active' = active
              /\ collision_key(j) \in active'
              /\ timers' = timers
              /\ invoked' = invoked /\ loopEntries' = loopEntries
              /\ \A k \in JobIds \ {j} : db'[k] = db[k] /\ run'[k] = run[k]
              /\ \E k \in JobIds \ {j} : InFlight(k)' /\ SameSlot(j, k)
              /\ db'[j] = [ db[j] EXCEPT !.status = "failed",
                                          !.message = MsgCollision ]]_vars

\* Witness of C33: a job was rejected while the holder of the key is in its
\* retry sleep after one failed attempt; the holder's row is still pending
\* with one attempt counted and the key is still in the active set.
C33_Witness ==
    \E j \in JobIds, k \in JobIds :
        /\ j # k /\ SameSlot(j, k)
        /\ run[j].pc = "collided"
        /\ db[j].status = "failed" /\ db[j].message = MsgCollision
        /\ run[k].pc = "sleep"
        /\ db[k].status = "pending" /\ db[k].attempt_count = 1
        /\ active = {collision_key(k)}

\* C34: every armed timer belongs to a pending row.  A timer appears outside
\* start only together with the insert of its row, as pending; a step of a
\* bot handler that leaves the table as it was arms nothing; and the step that
\* turns a pending row into a cancelled one leaves no timer of that job.
C34_ArmedIsPending ==
    /\ [](\A j \in JobIds : j \in timers => db[j].status = "pending")
    /\ [][\A j \in JobIds :
            /\ (j \notin timers /\ j \in timers' /\ phase = "running") =>
                   /\ db[j] = NoRow
                   /\ db'[j].status = "pending"
                   /\ db'[j].fire_at = computed'.fire_at
            /\ (db[j].status = "pending" /\ db'[j].status = "cancelled") =>
                   j \notin timers'
            /\ (phase = "running" /\ db' = db) => timers' \subseteq timers]_vars

\* Witness of C34: of two jobs created by the bot, one was cancelled and has
\* no timer, the other is pending and armed.
C34_Witness ==
    \E j \in JobIds, k \in JobIds :
        /\ phase = "running"
        /\ restarts = 0
        /\ j \in cancelledEarly
        /\ db[j].status = "cancelled" /\ j \notin timers
        /\ db[k].status = "pending" /\ k \in timers

\* C35: confirming a scheduled booking for a date of the calendar persists a
\* pending row with fire_at = compute_fire_at(booking_date) and arms its
\* timer, the string of compute_fire_at being accepted by the handler.
C35_ConfirmPersists ==
    [][\A d \in CreateDates :
          (/\ ~ strptime_raises(d)
           /\ \E j \in JobIds : db[j] = NoRow
           /\ \E u \in Users, t \in BookingTimes, c \in Courts :
                  execute_booking(u, d, t, c))
              => \E j \in JobIds :
                     /\ db[j] = NoRow
                     /\ db'[j].status = "pending"
                     /\ db'[j].booking_date = d
                     /\ db'[j].fire_at = compute_fire_at(d)
                     /\ j \in timers']_vars

\* C36: a row keeps its owner, its slot and its fire_at from the insert on,
\* and rows do not go away: start, add_job, remove_job, the steps of a run, a
\* collision rejection, stop and restart change nothing of a row but status,
\* message and attempt_count; and fire_at is what compute_fire_at gave for the
\* booking date when the row was inserted.
C36_RowFrame ==
    /\ [](\A j \in JobIds :
            db[j] # NoRow => db[j].fire_at = compute_fire_at(db[j].booking_date))
    /\ [][\A j \in JobIds :
            db[j] # NoRow =>
                /\ db'[j] # NoRow
                /\ db'[j].user_id = db[j].user_id
                /\ db'[j].booking_date = db[j].booking_date
                /\ db'[j].booking_time = db[j].booking_time
                /\ db'[j].court = db[j].court
                /\ db'[j].fire_at = db[j].fire_at]_vars

\* Witness of C36: after a restart, a row whose run failed three times and a
\* row that was rejected as a collision both hold the fire_at of their insert.
C36_Witness ==
    \E j \in JobIds, k \in JobIds :
        /\ restarts > 0
        /\ db[j].status = "failed" /\ db[j].attempt_count = MAX_RETRIES_PER_JOB
        /\ db[k].status = "failed" /\ db[k].message = MsgCollision
        /\ db[j].fire_at = compute_fire_at(db[j].booking_date)
        /\ db[k].fire_at = compute_fire_at(db[k].booking_date)
        /\ db[j].fire_at.raised = ""

\* C37: every date the schedule menu offers has a fire_at that is strictly
\* later than the instant at which the menu is shown.
C37_OfferedFireInFuture ==
    computed.shown =>
        \A d \in computed.offered :
            /\ compute_fire_at(d).raised = ""
            /\ fromisoformat(compute_fire_at(d)) > now

====
